---- MODULE Spec2Model ----
(***************************************************************************)
(* Model of script/backup_script.py: the two-stage backup pipeline.        *)
(*                                                                         *)
(* Stage A (backup_files, lines 149-163): one get_changed_files task per   *)
(* selected commit runs in a process pool; the parent collects each        *)
(* finished future in completion order.                                    *)
(* Stage B (line 166): one process_commit coroutine per key of             *)
(* commit_files, each gathering one process_file coroutine per file.       *)
(* Coroutines run on one event loop; the blocking calls (git show, the     *)
(* aiofiles open / write / close) run in executor threads, so each         *)
(* await is split into the thread's completion and the coroutine's         *)
(* resumption.                                                             *)
(***************************************************************************)
EXTENDS Integers, Sequences, FiniteSets, TLC

\* Bound on the number of injected environment faults in one run.
MaxFaults == 2
\* Bounds of the front-end calls: commits in a history, the last day, clock
\* ticks in a day, paths in a diff, characters in a path.
MaxHistory == 2
MaxDay == 2
DayLen == 2
MaxPaths == 2
MaxNameLen == 2

\* ------------------------------------------------------------------ data
Commits == {"c1", "c2"}

\* Relative paths as sequences of components.
F1 == <<"a">>
F2 == <<"d", "b">>
Files == {F1, F2}

\* Name-only diffs a commit may have (no path is listed twice).
FileLists == {<< >>, <<F1>>, <<F2>>, <<F1, F2>>}

Units == Commits \X Files

\* The sentinel of line 162: a string in the place of a file name.
Marker == <<"Files could not be retrieved">>

\* The substring tested on line 120, as a sequence of words.
DeletionMarker == <<"does", "not", "exist", "in">>

\* Texts of a GitCommandError raised by repo.git.show.
GitMessages ==
    { <<"path", "does", "not", "exist", "in", "sha">>,
      <<"bad", "object", "sha">>,
      <<"not", "in", "sha">> }

\* Mutant of Contains: the text must equal the marker.
ContainsWhole(hay, needle) == hay = needle

\* 'needle in hay' for strings, on sequences of words.
Contains(hay, needle) ==
    \E i \in 0..(Len(hay) - Len(needle)) :
        \A j \in 1..Len(needle) : hay[i + j] = needle[j]

\* Content of file f as tracked at commit c (two chunks).
Content(c, f) == <<c, f[Len(f)]>>

\* What the executor thread running repo.git.show hands back.
NoResult == [kind |-> "none"]
ContentResult(c, f) == [kind |-> "content", data |-> Content(c, f)]
GitErrors == {[kind |-> "GitCommandError", msg |-> m] : m \in GitMessages}
OtherError == [kind |-> "Exception"]

\* The repository's report that the file does not exist at the commit: the
\* GitCommandError the test raises for it.
AbsentErrors ==
    {[kind |-> "GitCommandError",
      msg |-> <<"path", "does", "not", "exist", "in", "sha">>]}
\* Every other way the retrieval can fail.
HardErrors == (GitErrors \ AbsentErrors) \cup {OtherError}

\* ------------------------------------------------------------- file tree
\* Paths are relative to backup_dir; << >> is backup_dir itself.
SeqRange(s) == {s[i] : i \in 1..Len(s)}
Prefixes(p) == {SubSeq(p, 1, k) : k \in 0..Len(p)}
ProperPrefixes(p) == {SubSeq(p, 1, k) : k \in 0..(Len(p) - 1)}
\* Mutant of Dirname: only the commit's directory is named.
DirnameCommitOnly(p) == SubSeq(p, 1, 1)

\* os.path.dirname(p)
Dirname(p) == SubSeq(p, 1, Len(p) - 1)

\* os.path.join(backup_dir, commit_sha)
CommitBackupDir(c) == <<c>>
\* Mutant of FilePath: the file is joined to backup_dir, not to the commit's
\* directory.
FilePathFlat(c, f) == f
\* os.path.join(commit_backup_dir, file)
FilePath(c, f) == CommitBackupDir(c) \o f

\* os.makedirs(d, exist_ok=True)
Makedirs(ds, d) == ds \cup Prefixes(d)

\* open(path, 'w'): the file exists and is empty.
OpenTruncate(tree, p) ==
    [q \in (DOMAIN tree) \cup {p} |-> IF q = p THEN << >> ELSE tree[q]]
\* open(path, 'a'): the file exists and keeps what it held.
OpenKeep(tree, p) ==
    [q \in (DOMAIN tree) \cup {p} |->
        IF q \in DOMAIN tree THEN tree[q] ELSE << >>]
\* f.write(content) and close: the file holds what reached it.
Store(tree, p, data) ==
    [q \in (DOMAIN tree) \cup {p} |-> IF q = p THEN data ELSE tree[q]]
\* The same through a handle opened with 'a': the data lands at the end.
StoreAtEnd(tree, p, data) ==
    [q \in (DOMAIN tree) \cup {p} |->
        IF q = p
            THEN (IF p \in DOMAIN tree THEN tree[p] ELSE << >>) \o data
            ELSE tree[q]]

\* Mutant of OpenMode: the destination is opened for appending.
OpenModeAppend == "a"

\* The mode of aiofiles.open on line 106.
OpenMode == "w"

\* aiofiles.open(file_path, mode=OpenMode)
OpenFile(tree, p) ==
    IF OpenMode = "w" THEN OpenTruncate(tree, p) ELSE OpenKeep(tree, p)
\* f.write(content) through the handle OpenFile gave.
WriteFile(tree, p, data) ==
    IF OpenMode = "w" THEN Store(tree, p, data) ELSE StoreAtEnd(tree, p, data)

VARIABLES
    pcMain,        \* where main / backup_files is
    commit_shas,   \* the commits get_commits selected
    ext,           \* per commit: state of its get_changed_files future
    diff,          \* per commit: the file list its worker produced
    commit_files,  \* the ChangedFileMap (a function on the collected commits)
    failed_files,  \* the failure list
    pcCommit,      \* per commit: where its process_commit coroutine is
    pcFile,        \* per unit: where its process_file coroutine is
    fetchRes,      \* per unit: what git show returned or raised
    dirs,          \* directories existing under backup_dir
    fs,            \* files under backup_dir: path -> content
    appends,       \* number of failed_files.append calls performed
    faults,        \* number of environment faults injected
    run,           \* 1 in the first run of main, 2 in a second run
    prev,          \* what the first run selected, fetched and left on disk
    args,          \* arguments of a direct call of a front-end function
    ret            \* what that call returned

vars == <<pcMain, commit_shas, ext, diff, commit_files, failed_files,
          pcCommit, pcFile, fetchRes, dirs, fs, appends, faults,
          run, prev, args, ret>>

\* No direct call of a front-end function is made.
NoArgs == [op |-> "none"]
NoRet == [done |-> FALSE]

\* Mutant of AppendRecord: a lost update, the record lands in the last slot.
AppendRecordLossy(list, rec) ==
    IF list = << >> THEN <<rec>> ELSE [list EXCEPT ![Len(list)] = rec]

\* list.append(record)
AppendRecord(list, rec) == Append(list, rec)

\* Mutant of IsDeletion: every GitCommandError counts as a deletion.
IsDeletionAnyGitError(e) == e.kind = "GitCommandError"

\* line 120: 'does not exist in' in str(e)
IsDeletion(e) == e.kind = "GitCommandError" /\ Contains(e.msg, DeletionMarker)

\* Faults are injected in the first run only: a second run sees the same
\* repository and a sound disk.
CanFault == run = 1 /\ faults < MaxFaults

\* The event loop runs coroutines only while main awaits backup_files' gather.
LoopRunning == pcMain = "stageB"

PipelineInit ==
    /\ pcMain = "start"
    /\ commit_shas = {}
    /\ ext = [c \in Commits |-> "none"]
    /\ diff = [c \in Commits |-> << >>]
    /\ commit_files = << >>
    /\ failed_files = << >>
    /\ pcCommit = [c \in Commits |-> "none"]
    /\ pcFile = [u \in Units |-> "none"]
    /\ fetchRes = [u \in Units |-> NoResult]
    /\ dirs = {<< >>}
    /\ fs = << >>
    /\ appends = 0
    /\ faults = 0
    /\ run = 1
    /\ prev = [shas |-> {}, diff |-> [c \in Commits |-> << >>],
               res |-> [u \in Units |-> NoResult], fs |-> << >>,
               dirs |-> {<< >>}]

Init ==
    /\ PipelineInit
    /\ args = NoArgs
    /\ ret = NoRet

\* main up to the call of backup_files; get_commits; executor.submit per commit.
StartBackup ==
    /\ pcMain = "start"
    /\ \E sel \in SUBSET Commits :
        /\ run = 2 => sel = prev.shas
        /\ commit_shas' = sel
        /\ ext' = [c \in Commits |-> IF c \in sel THEN "submitted" ELSE "none"]
    /\ pcMain' = "stageA"
    /\ UNCHANGED <<diff, commit_files, failed_files, pcCommit, pcFile,
                   fetchRes, dirs, fs, appends, faults>>
    /\ UNCHANGED <<run, prev, args, ret>>

\* A pool worker finishes get_changed_files for commit c.
WorkerDone(c) ==
    /\ ext[c] = "submitted"
    /\ \/ \E l \in FileLists :
            /\ run = 2 => l = prev.diff[c]
            /\ ext' = [ext EXCEPT ![c] = "ok"]
            /\ diff' = [diff EXCEPT ![c] = l]
            /\ UNCHANGED faults
       \/ /\ CanFault
          /\ ext' = [ext EXCEPT ![c] = "err"]
          /\ faults' = faults + 1
          /\ UNCHANGED diff
    /\ UNCHANGED <<pcMain, commit_shas, commit_files, failed_files, pcCommit,
                   pcFile, fetchRes, dirs, fs, appends>>
    /\ UNCHANGED <<run, prev, args, ret>>

\* One iteration of the as_completed loop, lines 156-163.
Collect(c) ==
    /\ pcMain = "stageA"
    /\ \/ /\ ext[c] = "ok"
          /\ ext' = [ext EXCEPT ![c] = "collected_ok"]
          /\ commit_files' =
                [k \in (DOMAIN commit_files) \cup {c} |->
                    IF k = c THEN diff[c] ELSE commit_files[k]]
          /\ UNCHANGED <<failed_files, appends>>
       \/ /\ ext[c] = "err"
          /\ ext' = [ext EXCEPT ![c] = "collected_err"]
          /\ failed_files' = AppendRecord(failed_files, <<c, Marker>>)
          /\ appends' = appends + 1
          /\ UNCHANGED commit_files
    /\ UNCHANGED <<pcMain, commit_shas, diff, pcCommit, pcFile, fetchRes,
                   dirs, fs, faults>>
    /\ UNCHANGED <<run, prev, args, ret>>

\* Mutant of StageADone: the first failed extraction ends the collection loop.
StageADoneOnFirstError ==
    \/ \A c \in commit_shas : ext[c] \in {"collected_ok", "collected_err"}
    \/ \E c \in commit_shas : ext[c] = "collected_err"

\* Mutant of StageADone: Stage B is admitted once one commit has its file list.
StageADonePerCommit == \E c \in commit_shas : ext[c] = "collected_ok"

\* The as_completed loop has handed out every future.
StageADone == \A c \in commit_shas : ext[c] \in {"collected_ok", "collected_err"}

\* The with-block ends; line 166 creates one process_commit per map entry.
StartStageB ==
    /\ pcMain = "stageA"
    /\ StageADone
    /\ pcMain' = "stageB"
    /\ pcCommit' = [c \in Commits |->
                       IF c \in DOMAIN commit_files THEN "new" ELSE "none"]
    /\ UNCHANGED <<commit_shas, ext, diff, commit_files, failed_files, pcFile,
                   fetchRes, dirs, fs, appends, faults>>
    /\ UNCHANGED <<run, prev, args, ret>>

UnitsOf(c) == {<<c, f>> : f \in SeqRange(commit_files[c])}

Terminal == {"written", "skipped", "failed"}

\* process_commit up to the await of line 143: resolve the commit, create its
\* directory, create one process_file task per file and gather them.
\* repo.commit or os.makedirs may raise; that is no BackupError.
ProcessCommitStart(c) ==
    /\ LoopRunning
    /\ pcCommit[c] = "new"
    /\ \/ /\ pcCommit' = [pcCommit EXCEPT ![c] = "waiting"]
          /\ dirs' = Makedirs(dirs, CommitBackupDir(c))
          /\ pcFile' = [u \in Units |->
                           IF u \in UnitsOf(c) THEN "new" ELSE pcFile[u]]
          /\ UNCHANGED faults
       \/ /\ CanFault
          /\ pcCommit' = [pcCommit EXCEPT ![c] = "raised"]
          /\ faults' = faults + 1
          /\ UNCHANGED <<dirs, pcFile>>
    /\ UNCHANGED <<pcMain, commit_shas, ext, diff, commit_files, failed_files,
                   fetchRes, fs, appends>>
    /\ UNCHANGED <<run, prev, args, ret>>

\* process_file starts: read_file_content hands git show to the executor.
FileStart(c, f) ==
    /\ LoopRunning
    /\ pcFile[<<c, f>>] = "new"
    /\ pcFile' = [pcFile EXCEPT ![<<c, f>>] = "fetching"]
    /\ UNCHANGED <<pcMain, commit_shas, ext, diff, commit_files, failed_files,
                   pcCommit, fetchRes, dirs, fs, appends, faults>>
    /\ UNCHANGED <<run, prev, args, ret>>

\* The executor thread finishes repo.git.show('<sha>:<file>').
FetchDone(c, f) ==
    /\ pcFile[<<c, f>>] = "fetching"
    /\ pcFile' = [pcFile EXCEPT ![<<c, f>>] = "fetched"]
    /\ \/ /\ run = 2 => prev.res[<<c, f>>] = ContentResult(c, f)
          /\ fetchRes' = [fetchRes EXCEPT ![<<c, f>>] = ContentResult(c, f)]
          /\ UNCHANGED faults
       \/ /\ \E e \in AbsentErrors :
                /\ run = 2 => prev.res[<<c, f>>] = e
                /\ fetchRes' = [fetchRes EXCEPT ![<<c, f>>] = e]
          /\ UNCHANGED faults
       \/ /\ CanFault
          /\ \E e \in HardErrors :
                fetchRes' = [fetchRes EXCEPT ![<<c, f>>] = e]
          /\ faults' = faults + 1
    /\ UNCHANGED <<pcMain, commit_shas, ext, diff, commit_files, failed_files,
                   pcCommit, dirs, fs, appends>>
    /\ UNCHANGED <<run, prev, args, ret>>

\* The except clauses of lines 119-131 for unit (c, f): record and raise.
RecordAndRaise(c, f) ==
    /\ failed_files' = AppendRecord(failed_files, <<c, f>>)
    /\ appends' = appends + 1
    /\ pcFile' = [pcFile EXCEPT ![<<c, f>>] = "failed"]

\* process_file resumes after line 115 and runs to its next await or its end.
FileResume(c, f) ==
    /\ LoopRunning
    /\ pcFile[<<c, f>>] = "fetched"
    /\ LET r == fetchRes[<<c, f>>] IN
       \/ /\ r.kind = "content"
          /\ \/ /\ dirs' = Makedirs(dirs, Dirname(FilePath(c, f)))
                /\ pcFile' = [pcFile EXCEPT ![<<c, f>>] = "opening"]
                /\ UNCHANGED <<failed_files, appends, faults>>
             \/ /\ CanFault          \* os.makedirs raises OSError
                /\ faults' = faults + 1
                /\ RecordAndRaise(c, f)
                /\ UNCHANGED dirs
       \/ /\ r.kind = "GitCommandError"
          /\ IF IsDeletion(r)
                THEN /\ pcFile' = [pcFile EXCEPT ![<<c, f>>] = "skipped"]
                     /\ UNCHANGED <<failed_files, appends>>
                ELSE RecordAndRaise(c, f)
          /\ UNCHANGED <<dirs, faults>>
       \/ /\ r.kind = "Exception"
          /\ RecordAndRaise(c, f)
          /\ UNCHANGED <<dirs, faults>>
    /\ UNCHANGED <<pcMain, commit_shas, ext, diff, commit_files, pcCommit,
                   fetchRes, fs>>
    /\ UNCHANGED <<run, prev, args, ret>>

\* The thread running aiofiles.open(file_path, 'w') finishes.
OpenDone(c, f) ==
    /\ pcFile[<<c, f>>] = "opening"
    /\ \/ /\ fs' = OpenFile(fs, FilePath(c, f))
          /\ pcFile' = [pcFile EXCEPT ![<<c, f>>] = "opened"]
          /\ UNCHANGED faults
       \/ /\ CanFault
          /\ faults' = faults + 1
          /\ pcFile' = [pcFile EXCEPT ![<<c, f>>] = "open_failed"]
          /\ UNCHANGED fs
    /\ UNCHANGED <<pcMain, commit_shas, ext, diff, commit_files, failed_files,
                   pcCommit, fetchRes, dirs, appends>>
    /\ UNCHANGED <<run, prev, args, ret>>

\* write_file_content resumes after the open: line 107, or the error reaches
\* line 127.
AfterOpen(c, f) ==
    /\ LoopRunning
    /\ \/ /\ pcFile[<<c, f>>] = "opened"
          /\ pcFile' = [pcFile EXCEPT ![<<c, f>>] = "writing"]
          /\ UNCHANGED <<failed_files, appends>>
       \/ /\ pcFile[<<c, f>>] = "open_failed"
          /\ RecordAndRaise(c, f)
    /\ UNCHANGED <<pcMain, commit_shas, ext, diff, commit_files, pcCommit,
                   fetchRes, dirs, fs, faults>>
    /\ UNCHANGED <<run, prev, args, ret>>

\* The thread running f.write(content) and the close finishes; a failure leaves
\* whatever part of the content had reached the file.
WriteDone(c, f) ==
    /\ pcFile[<<c, f>>] = "writing"
    /\ LET p == FilePath(c, f)
           data == fetchRes[<<c, f>>].data IN
       \/ /\ fs' = WriteFile(fs, p, data)
          /\ pcFile' = [pcFile EXCEPT ![<<c, f>>] = "wrote"]
          /\ UNCHANGED faults
       \/ /\ CanFault
          /\ faults' = faults + 1
          /\ \E part \in ProperPrefixes(data) : fs' = WriteFile(fs, p, part)
          /\ pcFile' = [pcFile EXCEPT ![<<c, f>>] = "write_failed"]
    /\ UNCHANGED <<pcMain, commit_shas, ext, diff, commit_files, failed_files,
                   pcCommit, fetchRes, dirs, appends>>
    /\ UNCHANGED <<run, prev, args, ret>>

\* process_file resumes after line 118: done, or the error reaches line 127.
AfterWrite(c, f) ==
    /\ LoopRunning
    /\ \/ /\ pcFile[<<c, f>>] = "wrote"
          /\ pcFile' = [pcFile EXCEPT ![<<c, f>>] = "written"]
          /\ UNCHANGED <<failed_files, appends>>
       \/ /\ pcFile[<<c, f>>] = "write_failed"
          /\ RecordAndRaise(c, f)
    /\ UNCHANGED <<pcMain, commit_shas, ext, diff, commit_files, pcCommit,
                   fetchRes, dirs, fs, faults>>
    /\ UNCHANGED <<run, prev, args, ret>>

\* await asyncio.gather(*tasks), line 143: the gather is done when every task
\* has finished, and raises as soon as one task has raised.
GatherDone(c) == \A u \in UnitsOf(c) : pcFile[u] \in Terminal
GatherRaised(c) == \E u \in UnitsOf(c) : pcFile[u] = "failed"

\* process_commit resumes after line 143 and returns, lines 144-145 included.
ProcessCommitReturn(c) ==
    /\ LoopRunning
    /\ pcCommit[c] = "waiting"
    /\ GatherDone(c) \/ GatherRaised(c)
    /\ pcCommit' = [pcCommit EXCEPT ![c] = "done"]
    /\ UNCHANGED <<pcMain, commit_shas, ext, diff, commit_files, failed_files,
                   pcFile, fetchRes, dirs, fs, appends, faults>>
    /\ UNCHANGED <<run, prev, args, ret>>

\* The gather of line 166 is done: backup_files returns to main, line 178.
BackupFilesReturn ==
    /\ pcMain = "stageB"
    /\ \A c \in DOMAIN commit_files : pcCommit[c] = "done"
    /\ pcMain' = "read"
    /\ UNCHANGED <<commit_shas, ext, diff, commit_files, failed_files, pcCommit,
                   pcFile, fetchRes, dirs, fs, appends, faults>>
    /\ UNCHANGED <<run, prev, args, ret>>

\* The gather of line 166 raises: main's except Exception, lines 189-191.
BackupFilesRaise ==
    /\ pcMain = "stageB"
    /\ \E c \in DOMAIN commit_files : pcCommit[c] = "raised"
    /\ pcMain' = "exit_error"
    /\ UNCHANGED <<commit_shas, ext, diff, commit_files, failed_files, pcCommit,
                   pcFile, fetchRes, dirs, fs, appends, faults>>
    /\ UNCHANGED <<run, prev, args, ret>>

\* main, lines 179-185.
MainReport ==
    /\ pcMain = "read"
    /\ pcMain' = IF failed_files # << >> THEN "exit_fail" ELSE "exit_ok"
    /\ UNCHANGED <<commit_shas, ext, diff, commit_files, failed_files, pcCommit,
                   pcFile, fetchRes, dirs, fs, appends, faults>>
    /\ UNCHANGED <<run, prev, args, ret>>

\* main is invoked a second time, on the same repository and into the tree
\* the first run left, after a first run that ended in success.
Rerun ==
    /\ pcMain = "exit_ok"
    /\ run = 1
    /\ faults = 0
    /\ run' = 2
    /\ prev' = [shas |-> commit_shas, diff |-> diff, res |-> fetchRes,
                fs |-> fs, dirs |-> dirs]
    /\ pcMain' = "start"
    /\ commit_shas' = {}
    /\ ext' = [c \in Commits |-> "none"]
    /\ diff' = [c \in Commits |-> << >>]
    /\ commit_files' = << >>
    /\ failed_files' = << >>
    /\ pcCommit' = [c \in Commits |-> "none"]
    /\ pcFile' = [u \in Units |-> "none"]
    /\ fetchRes' = [u \in Units |-> NoResult]
    /\ appends' = 0
    /\ UNCHANGED <<dirs, fs, faults, args, ret>>

Next ==
    \/ StartBackup
    \/ Rerun
    \/ StartStageB
    \/ BackupFilesReturn
    \/ BackupFilesRaise
    \/ MainReport
    \/ \E c \in Commits :
        \/ WorkerDone(c)
        \/ Collect(c)
        \/ ProcessCommitStart(c)
        \/ ProcessCommitReturn(c)
        \/ \E f \in Files :
            \/ FileStart(c, f)
            \/ FetchDone(c, f)
            \/ FileResume(c, f)
            \/ OpenDone(c, f)
            \/ AfterOpen(c, f)
            \/ WriteDone(c, f)
            \/ AfterWrite(c, f)

Spec == Init /\ [][Next]_vars

\* ------------------------------------------------------------- front end
\* get_commits, get_changed_files and validate, each called on inputs drawn
\* from bounded sets.

pipelineVars == <<pcMain, commit_shas, ext, diff, commit_files, failed_files,
                  pcCommit, pcFile, fetchRes, dirs, fs, appends, faults,
                  run, prev>>

Days == 0..MaxDay
TicksOfDay == 0..(DayLen - 1)
\* commit.committed_date: clock ticks since day 0.
Ticks == 0..((MaxDay + 1) * DayLen - 1)

\* A date argument: << >> is None, <<d>> the string naming day d.
NoDate == << >>
Dates == {NoDate} \cup {<<d>> : d \in Days}

\* A datetime is <<day, tick of the day>>.
DtLess(a, b) == a[1] < b[1] \/ (a[1] = b[1] /\ a[2] < b[2])
\* datetime.strptime(date, '%d-%m-%Y'): the day at 00:00.
strptime(date) == <<date[1], 0>>
\* datetime.fromtimestamp(t)
fromtimestamp(t) == <<t \div DayLen, t % DayLen>>

\* repo.iter_commits(branch): commits in history order.
History(ts) == [i \in 1..Len(ts) |-> [sha |-> i, committed_date |-> ts[i]]]
Histories == {History(ts) : ts \in UNION {[1..n -> Ticks] : n \in 0..MaxHistory}}

\* The loop of lines 78-86.
RECURSIVE FilterCommits(_, _, _)
FilterCommits(history, start_date, end_date) ==
    IF history = << >> THEN << >>
    ELSE LET commit == Head(history)
             commit_date == fromtimestamp(commit.committed_date)
             rest == FilterCommits(Tail(history), start_date, end_date)
         IN  IF start_date # NoDate /\ DtLess(commit_date, strptime(start_date))
                THEN rest
             ELSE IF end_date # NoDate /\ DtLess(strptime(end_date), commit_date)
                THEN rest
             ELSE <<commit>> \o rest

\* Mutant of get_commits: a commit at the very start of the window is dropped.
RECURSIVE FilterCommitsStrict(_, _, _)
FilterCommitsStrict(history, start_date, end_date) ==
    IF history = << >> THEN << >>
    ELSE LET commit == Head(history)
             commit_date == fromtimestamp(commit.committed_date)
             rest == FilterCommitsStrict(Tail(history), start_date, end_date)
         IN  IF start_date # NoDate /\ ~DtLess(strptime(start_date), commit_date)
                THEN rest
             ELSE IF end_date # NoDate /\ DtLess(strptime(end_date), commit_date)
                THEN rest
             ELSE <<commit>> \o rest
get_commitsStrict(history, start_date, end_date) ==
    IF start_date = NoDate /\ end_date = NoDate
        THEN history
        ELSE FilterCommitsStrict(history, start_date, end_date)

\* get_commits, lines 57-86.
get_commits(history, start_date, end_date) ==
    IF start_date = NoDate /\ end_date = NoDate
        THEN history
        ELSE FilterCommits(history, start_date, end_date)

\* Characters of the name-only output of git show.
NL == "\n"
NameChars == {"x", "y"}
Names == UNION {[1..n -> NameChars] : n \in 1..MaxNameLen}
PathLists == UNION {[1..n -> Names] : n \in 0..MaxPaths}

\* What repo.git.show('--pretty=', '--name-only', sha) returns for a commit
\* that changed these paths: one path per line, the last newline stripped.
RECURSIVE GitShowNameOnly(_)
GitShowNameOnly(paths) ==
    IF paths = << >> THEN << >>
    ELSE IF Len(paths) = 1 THEN paths[1]
    ELSE paths[1] \o <<NL>> \o GitShowNameOnly(Tail(paths))

\* str.splitlines(): rest is unread, cur the line being read, acc the lines.
RECURSIVE Lines(_, _, _)
Lines(rest, cur, acc) ==
    IF rest = << >> THEN (IF cur # << >> THEN Append(acc, cur) ELSE acc)
    ELSE IF Head(rest) = NL THEN Lines(Tail(rest), << >>, Append(acc, cur))
    ELSE Lines(Tail(rest), Append(cur, Head(rest)), acc)

\* Mutant of splitlines: str.split('\n'), which ends with the last piece
\* even when it is empty.
RECURSIVE Pieces(_, _, _)
Pieces(rest, cur, acc) ==
    IF rest = << >> THEN Append(acc, cur)
    ELSE IF Head(rest) = NL THEN Pieces(Tail(rest), << >>, Append(acc, cur))
    ELSE Pieces(Tail(rest), Append(cur, Head(rest)), acc)
SplitOnNewline(text) == Pieces(text, << >>, << >>)

splitlines(text) == Lines(text, << >>, << >>)

\* get_changed_files, lines 98-99; show_output is what repo.git.show returns.
get_changed_files(show_output, commit_sha) ==
    <<commit_sha, splitlines(show_output)>>

\* validate, lines 25-55: "ok" when it returns, else the exception raised.
validate(backup_exists, repo_exists, is_git_repo, start_date, end_date, today) ==
    IF ~backup_exists THEN "ValidationError"
    ELSE IF ~repo_exists THEN "ValidationError"
    ELSE IF ~is_git_repo THEN "ValidationError"
    ELSE IF start_date # NoDate /\ DtLess(today, strptime(start_date))
        THEN "ValidationError"
    ELSE IF end_date # NoDate /\ start_date # NoDate
            /\ DtLess(strptime(end_date), strptime(start_date))
        THEN "ValidationError"
    ELSE "ok"

GetCommitsArgs ==
    {[op |-> "get_commits", history |-> h, start_date |-> s, end_date |-> e] :
        h \in Histories, s \in Dates, e \in Dates}
GetChangedFilesArgs ==
    {[op |-> "get_changed_files", commit_sha |-> c, paths |-> ps] :
        c \in Commits, ps \in PathLists}
MainArgs ==
    {[op |-> "main", backup_exists |-> b[1], repo_exists |-> b[2],
      is_git_repo |-> b[3], start_date |-> s, end_date |-> e, today |-> t] :
        b \in BOOLEAN \X BOOLEAN \X BOOLEAN, s \in Dates, e \in Dates,
        t \in Days \X TicksOfDay}

FrontInit ==
    /\ PipelineInit
    /\ args \in GetCommitsArgs \cup GetChangedFilesArgs \cup MainArgs
    /\ ret = IF args.op = "main" THEN [done |-> FALSE, pc |-> "entry"] ELSE NoRet

CallGetCommits ==
    /\ args.op = "get_commits"
    /\ ~ret.done
    /\ ret' = [done |-> TRUE,
               value |-> get_commits(args.history, args.start_date,
                                     args.end_date)]
    /\ UNCHANGED <<pipelineVars, args>>

CallGetChangedFiles ==
    /\ args.op = "get_changed_files"
    /\ ~ret.done
    /\ ret' = [done |-> TRUE,
               value |-> get_changed_files(GitShowNameOnly(args.paths),
                                           args.commit_sha)]
    /\ UNCHANGED <<pipelineVars, args>>

\* main, lines 172-173 and 186-188.
MainValidate ==
    /\ args.op = "main"
    /\ ret.pc = "entry"
    /\ ret' = [done |-> FALSE,
               pc |-> IF validate(args.backup_exists, args.repo_exists,
                                  args.is_git_repo, args.start_date,
                                  args.end_date, args.today) = "ok"
                         THEN "validated"
                         ELSE "exit_validation"]
    /\ UNCHANGED <<pipelineVars, args>>

\* main, lines 174-177: backup_files is invoked.
MainCallBackupFiles ==
    /\ args.op = "main"
    /\ ret.pc = "validated"
    /\ ret' = [done |-> TRUE, pc |-> "backup_files"]
    /\ UNCHANGED <<pipelineVars, args>>

FrontNext ==
    \/ CallGetCommits
    \/ CallGetChangedFiles
    \/ MainValidate
    \/ MainCallBackupFiles

FrontSpec == FrontInit /\ [][FrontNext]_vars

\* ------------------------------------------------------------ properties
\* backup_files has returned and main is about to read failed_files, line 179.
AtReturn == pcMain = "read"

Count(list, rec) == Cardinality({i \in 1..Len(list) : list[i] = rec})

\* The unit's retrieval or write has failed (whether or not recorded yet).
HardFailed(u) ==
    \/ pcFile[u] \in {"open_failed", "write_failed", "failed"}
    \/ pcFile[u] = "fetched" /\ fetchRes[u] \in HardErrors

\* The repository reported the unit's file absent at the commit.
Absent(u) == fetchRes[u] \in AbsentErrors

ExtractionFailed(c) == ext[c] \in {"err", "collected_err"}

\* Hard failures that have happened in the run: extraction, retrieval, write.
HardFailures ==
    Cardinality({c \in Commits : ExtractionFailed(c)})
    + Cardinality({u \in Units : HardFailed(u)})

MapUnits == UNION {UnitsOf(c) : c \in DOMAIN commit_files}

\* C1: when backup_files returns, every unit of the ChangedFileMap that has
\* neither hard-failed nor been skipped as a deletion has its destination file
\* holding its full content, also in a commit where another unit hard-failed.
C1_SiblingsWrittenAtReturn ==
    AtReturn =>
        \A u \in MapUnits :
            (~HardFailed(u) /\ ~Absent(u)) =>
                /\ FilePath(u[1], u[2]) \in DOMAIN fs
                /\ fs[FilePath(u[1], u[2])] = Content(u[1], u[2])

\* C2: once process_commit has returned for a commit, every process_file unit
\* of that commit has reached a terminal outcome (written, skipped or failed).
C2_CommitDoneUnitsTerminal ==
    \A c \in DOMAIN commit_files :
        pcCommit[c] = "done" => \A u \in UnitsOf(c) : pcFile[u] \in Terminal

\* C3: when main reads the failure list, its length equals the number of hard
\* failures of the run: none is unrecorded and none is recorded twice.
C3_RecordsEqualHardFailures ==
    AtReturn => Len(failed_files) = HardFailures

\* C4: when backup_files returns after a unit of one commit hard-failed, every
\* unit of every other commit has reached a terminal outcome, and no
\* process_commit has let a BackupError out.
C4_OtherCommitsComplete ==
    AtReturn =>
        \A c \in DOMAIN commit_files :
            (\E u \in UnitsOf(c) : pcFile[u] = "failed") =>
                \A d \in (DOMAIN commit_files) \ {c} :
                    /\ pcCommit[d] = "done"
                    /\ \A v \in UnitsOf(d) : pcFile[v] \in Terminal

\* Witness of C5: a unit whose retrieval hard-failed has been handled.
C5_Witness ==
    \E u \in Units : fetchRes[u] \in HardErrors /\ pcFile[u] = "failed"

\* C5: a retrieval failure other than a deletion makes process_file append
\* exactly one record (commit, file) and raise, with no directory created and
\* no destination file written for the unit.
C5_HardFetchFailure ==
    /\ [](\A u \in Units :
            fetchRes[u] \in HardErrors =>
                /\ pcFile[u] \in {"fetched", "failed"}
                /\ Count(failed_files, u) = IF pcFile[u] = "failed" THEN 1 ELSE 0
                /\ (<<u[1]>> \o u[2]) \notin DOMAIN fs)
    /\ [][\A u \in Units :
            (fetchRes[u] \in HardErrors /\ pcFile[u] = "fetched"
                /\ pcFile'[u] # "fetched") =>
                /\ pcFile'[u] = "failed"
                /\ failed_files' = Append(failed_files, u)
                /\ dirs' = dirs
                /\ fs' = fs]_vars

\* Witness of C6: a unit whose file was reported absent has been handled.
C6_Witness ==
    \E u \in Units : Absent(u) /\ pcFile[u] = "skipped"

\* C6: when the repository reports the file absent at the commit,
\* process_file returns without raising, the failure list is unchanged, and
\* no directory and no destination file is created for the unit.
C6_DeletionSkip ==
    /\ [](\A u \in Units :
            Absent(u) =>
                /\ pcFile[u] \in {"fetched", "skipped"}
                /\ Count(failed_files, u) = 0
                /\ (<<u[1]>> \o u[2]) \notin DOMAIN fs)
    /\ [][\A u \in Units :
            (Absent(u) /\ pcFile[u] = "fetched" /\ pcFile'[u] # "fetched") =>
                /\ pcFile'[u] = "skipped"
                /\ failed_files' = failed_files
                /\ dirs' = dirs
                /\ fs' = fs]_vars

\* Witness of C7: Stage B runs after one extraction failed and one succeeded.
C7_Witness ==
    /\ pcMain = "stageB"
    /\ \E c \in commit_shas : ext[c] = "collected_err"
    /\ \E c \in commit_shas :
        ext[c] = "collected_ok" /\ pcCommit[c] = "waiting" /\ UnitsOf(c) # {}

\* C7: after Stage A every selected commit is either a key of the
\* ChangedFileMap with its file list, or failed with exactly one record
\* (commit, marker) and then has no process_commit and no file unit; every
\* successful extraction is in the map whatever the other commits did.
C7_StageAOutcome ==
    pcMain \notin {"start", "stageA"} =>
        /\ DOMAIN commit_files \subseteq commit_shas
        /\ \A c \in commit_shas :
            \/ /\ ext[c] = "collected_ok"
               /\ c \in DOMAIN commit_files
               /\ commit_files[c] = diff[c]
               /\ Count(failed_files, <<c, Marker>>) = 0
            \/ /\ ext[c] = "collected_err"
               /\ c \notin DOMAIN commit_files
               /\ Count(failed_files, <<c, Marker>>) = 1
               /\ pcCommit[c] = "none"
               /\ \A f \in Files : pcFile[<<c, f>>] = "none"

\* The units of the map whose file exists at their commit.
PresentUnits == {u \in MapUnits : fetchRes[u].kind = "content"}

\* Witness of C8: a run without failure has returned with files of both
\* commits written and one file skipped as deleted.
C8_Witness ==
    /\ AtReturn
    /\ HardFailures = 0
    /\ Cardinality(DOMAIN fs) = 3
    /\ \E u \in MapUnits : Absent(u)

\* C8: in a run where no unit fails, when backup_files returns the tree holds
\* exactly the files backup_root/c/f of the units whose file exists at the
\* commit, each with the content fetched for it.
C8_NoFailureTree ==
    (AtReturn /\ HardFailures = 0) =>
        /\ DOMAIN fs = {<<u[1]>> \o u[2] : u \in PresentUnits}
        /\ \A u \in PresentUnits :
            /\ fs[<<u[1]>> \o u[2]] = fetchRes[u].data
            /\ fs[<<u[1]>> \o u[2]] = Content(u[1], u[2])

\* C9: a unit whose write failed after the destination was opened has exactly
\* one record, and its destination is absent or holds the complete content.
C9_WriteAllOrNothing ==
    \A u \in Units :
        (pcFile[u] = "failed" /\ fetchRes[u].kind = "content") =>
            /\ Count(failed_files, u) = 1
            /\ \/ FilePath(u[1], u[2]) \notin DOMAIN fs
               \/ fs[FilePath(u[1], u[2])] = Content(u[1], u[2])

\* Witness of C10: appends of Stage A and of Stage B have both been performed.
C10_Witness ==
    /\ appends = 2
    /\ \E c \in Commits : Count(failed_files, <<c, Marker>>) = 1
    /\ \E u \in Units : Count(failed_files, u) = 1

\* C10: after k appends the failure list holds exactly k entries, and an entry
\* once appended is never removed or overwritten.
C10_NoLostAppend ==
    /\ [](Len(failed_files) = appends)
    /\ [][/\ Len(failed_files') >= Len(failed_files)
          /\ SubSeq(failed_files', 1, Len(failed_files)) = failed_files]_vars

\* main has ended.
MainEnded == pcMain \in {"exit_ok", "exit_fail", "exit_error"}

\* C11: once validation has passed, main ends in success exactly when the
\* failure list is empty at run end, and in failure when it is not.
C11_SuccessIffEmpty ==
    MainEnded => (pcMain = "exit_ok" <=> failed_files = << >>)

\* Every extraction future has been handed out by the as_completed loop.
AllExtractionsCollected ==
    \A c \in commit_shas : ext[c] \in {"collected_ok", "collected_err"}

\* Witness of C13: with two selected commits a unit is writing.
C13_Witness ==
    /\ pcMain = "stageB"
    /\ Cardinality(commit_shas) = 2
    /\ \E u \in Units : pcFile[u] = "writing"

\* C13: no process_commit, no file unit, no directory creation and no write
\* happens before every selected commit's extraction has delivered its list
\* or had its failure recorded.
C13_StageBarrier ==
    /\ []((\/ \E c \in Commits : pcCommit[c] # "none"
           \/ \E u \in Units : pcFile[u] # "none")
            => (pcMain \notin {"start", "stageA"} /\ AllExtractionsCollected))
    /\ [][(dirs' # dirs \/ fs' # fs) =>
            (pcMain \notin {"start", "stageA"} /\ AllExtractionsCollected)]_vars

\* The states of a unit from the call of write_file_content on.
WriteAttempted ==
    {"opening", "opened", "open_failed", "writing", "wrote", "write_failed",
     "written"}

\* Witness of C14: the write of a file in a subdirectory is being attempted.
C14_Witness ==
    \E c \in Commits : pcFile[<<c, F2>>] = "opening"

\* C14: whenever the write of backup_root/c/f is attempted, the commit's
\* directory and every intermediate directory of f exist.
C14_DirsBeforeWrite ==
    \A u \in Units :
        pcFile[u] \in WriteAttempted =>
            \A d \in ProperPrefixes(<<u[1]>> \o u[2]) : d \in dirs

\* Witness of C15: the same file of two commits is being written at once.
C15_Witness ==
    /\ pcFile[<<"c1", F1>>] = "writing"
    /\ pcFile[<<"c2", F1>>] = "writing"

\* C15: within a run a unit is created and started at most once, and two
\* units that attempt a write never have the same destination path.
C15_UnitsOnceDisjointPaths ==
    /\ [](\A u, v \in Units :
            (u # v /\ pcFile[u] \in WriteAttempted /\ pcFile[v] \in WriteAttempted)
                => FilePath(u[1], u[2]) # FilePath(v[1], v[2]))
    /\ [][\A u \in Units :
            /\ (pcFile'[u] = "new" /\ pcFile[u] # "new") => pcFile[u] = "none"
            /\ (pcFile'[u] = "fetching" /\ pcFile[u] # "fetching")
                    => pcFile[u] = "new"]_vars

\* C19: no failure raised while processing a commit leaves backup_files: a
\* process_commit that fails before its units start is recorded in the
\* failure list and main does not end through its handler of unexpected errors.
C19_NoFailureEscapes ==
    /\ pcMain # "exit_error"
    /\ \A c \in Commits :
        pcCommit[c] = "raised" =>
            \E i \in 1..Len(failed_files) : failed_files[i][1] = c

InWindow(t) ==
    /\ args.start_date # NoDate => args.start_date[1] * DayLen <= t
    /\ args.end_date # NoDate => t <= args.end_date[1] * DayLen

\* Witness of C12: a window with both bounds kept one commit and dropped one.
C12_Witness ==
    /\ args.op = "get_commits"
    /\ ret.done
    /\ args.start_date # NoDate
    /\ args.end_date # NoDate
    /\ Len(ret.value) = 1
    /\ Len(args.history) = 2

\* C12: get_commits returns exactly the commits of the history whose
\* committed timestamp lies between the start and the end instant, in history
\* order; without bounds it returns the history unchanged.
C12_GetCommitsWindow ==
    (args.op = "get_commits" /\ ret.done) =>
        /\ ret.value = SelectSeq(args.history,
                                 LAMBDA c : InWindow(c.committed_date))
        /\ (args.start_date = NoDate /\ args.end_date = NoDate)
                => ret.value = args.history

\* The day of a timestamp lies in the window of days.
DayInWindow(t) ==
    /\ args.start_date # NoDate => args.start_date[1] <= t \div DayLen
    /\ args.end_date # NoDate => t \div DayLen <= args.end_date[1]

\* C18: get_commits selects a commit exactly when its day is no earlier than
\* the start date and no later than the end date, whatever its time of day.
C18_DayGranularity ==
    (args.op = "get_commits" /\ ret.done) =>
        \A i \in 1..Len(args.history) :
            (\E j \in 1..Len(ret.value) : ret.value[j] = args.history[i])
                <=> DayInWindow(args.history[i].committed_date)

\* Witness of C17: a diff of two different paths has been split.
C17_Witness ==
    /\ args.op = "get_changed_files"
    /\ ret.done
    /\ Len(args.paths) = 2
    /\ args.paths[1] # args.paths[2]

\* C17: get_changed_files returns the commit identifier it was given with
\* exactly the paths of the diff, in order; an empty diff gives the empty list.
C17_ChangedFiles ==
    (args.op = "get_changed_files" /\ ret.done) =>
        /\ ret.value = <<args.commit_sha, args.paths>>
        /\ args.paths = << >> => ret.value[2] = << >>

\* C20: with start after end, or a start date or an end date later than
\* today, validate raises and main never invokes backup_files.
C20_DatesRejected ==
    (/\ args.op = "main"
     /\ \/ /\ args.start_date # NoDate /\ args.end_date # NoDate
           /\ args.start_date[1] > args.end_date[1]
        \/ args.start_date # NoDate /\ args.start_date[1] > args.today[1]
        \/ args.end_date # NoDate /\ args.end_date[1] > args.today[1])
        => ret.pc \in {"entry", "exit_validation"}
====
